---- MODULE Spec2Model ----
(***************************************************************************)
(* A model of randbats-winrates: the statistics store (src/src/stats.rs)   *)
(* and the directory walk with its rayon worker pool (src/src/main.rs).    *)
(*                                                                         *)
(* Strings are modelled as sequences of tokens: a species identifier as    *)
(* pikkr delivers it, "Pikachu-Alola" with its JSON quotes, is             *)
(*   << Q, "Pikachu", "-", "Alola", Q >>                                   *)
(* so that starts_with, == and the [1..len-1] slice are computed on the    *)
(* text as the code computes them.                                         *)
(***************************************************************************)
EXTENDS Integers, Sequences, FiniteSets, TLC

VARIABLES
    stats,        \* the Stats object: [pokemon, is_sorted]
    last,         \* the last operation applied, its argument and its result
    firstSeen,    \* history: species in the order of their first insertion
    merged,       \* history: every GameResult merged so far, in merge order
    renderPhase,  \* history: "merging" until the first sort, "rendered" after
                  \* it, "remerged" once results are merged after a sort
    min_elo,      \* the --minimum-elo option
    json,         \* the seven fields pikkr extracted from one battle log
    extracted,    \* what process_json(min_elo, json) returned, once called
    corpus,       \* a multiset of GameResults: how many of each
    remaining,    \* the part of corpus not yet merged in this run
    run,          \* 1: the first merging of corpus, 2: the second
    firstFinal,   \* the map the first run ended with
    opts,         \* Options: whether --csv-output and --human-output are given
    entryKinds,   \* the entries of format_dir, in the order read_dir yields them
    files,        \* the files of the directories: [dir, kind], a task each
    taskpc,       \* where each task of the rayon pool is
    pending,      \* the results a task has extracted and not yet merged
    stats_mutex,  \* None, or Some(t) while task t holds the guard
    mainpc,       \* where main is
    cursor,       \* the entry of format_dir that handle_directory is at
    written,      \* the files main has written: [path, content]
    mergeCount,   \* history: the calls of add_game_results for each task
    raw,          \* the species text that pikkr hands to normalize_species
    normal        \* what normalize_species returned for raw, and for that again

storeVars == <<stats, last, firstSeen, merged, renderPhase>>

extractVars == <<min_elo, json, extracted>>

mergeVars == <<corpus, remaining, run, firstFinal>>

poolVars ==
    <<opts, entryKinds, files, taskpc, pending, stats_mutex, mainpc, cursor,
      written, mergeCount>>

normVars == <<raw, normal>>

vars == <<storeVars, extractVars, mergeVars, poolVars, normVars>>

-----------------------------------------------------------------------------
(* Bounds                                                                   *)

MaxBatch == 2        \* longest result sequence given to add_game_results
MaxResults == 4      \* GameResults merged in one run of the store model
MaxElo == 1          \* largest rating and largest --minimum-elo
MaxTeam == 2         \* most entries of a p1team
MaxFiles == 3        \* most files under format_dir
MaxFairFiles == 2    \* most files under format_dir in the fair runs

-----------------------------------------------------------------------------
(* Text                                                                     *)

Q == "\""

StartsWith(s, prefix) ==
    /\ Len(s) >= Len(prefix)
    /\ SubSeq(s, 1, Len(prefix)) = prefix

Quoted(name) == <<Q, name, Q>>

\* The store model's species keys.
StoreSpecies == {Quoted("Pikachu"), Quoted("Snorlax"), Quoted("Unown")}

-----------------------------------------------------------------------------
(* f32 arithmetic of PokemonStats::final_stats                              *)
(*                                                                          *)
(* The values are IEEE-754 binary32 results of the expressions of           *)
(* final_stats, evaluated operation by operation with round-to-nearest, for *)
(* every wins <= games <= 9.  A value is written as its bit pattern read as *)
(* an integer, negated when the sign bit is set, so that the integer order  *)
(* is the order partial_cmp computes.  Row g, column wins + 1.              *)

\* (wins as f32 / games) * 100.0
F32Winrate ==
    <<
       <<0, 1120403456>>,
       <<0, 1112014848, 1120403456>>,
       <<0, 1107645782, 1116034390, 1120403456>>,
       <<0, 1103626240, 1112014848, 1117126656, 1120403456>>,
       <<0, 1101004800, 1109393408, 1114636289, 1117782016, 1120403456>>,
       <<0, 1099257174, 1107645782, 1112014848, 1116034390, 1118218922, 1120403456>>,
       <<0, 1097110090, 1105498698, 1110142391, 1113887306, 1116658542, 1118530999, 1120403456>>,
       <<0, 1095237632, 1103626240, 1108738048, 1112014848, 1115291648, 1117126656, 1118765056, 1120403456>>,
       <<0, 1093781277, 1102169885, 1107645782, 1110558493, 1113471204, 1116034390, 1117490745, 1118947101, 1120403456>>
    >>

\* (winrate - 50.0) * games.sqrt() / 50.0
F32Deviations ==
    <<
       <<-1065353216, 1065353216>>,
       <<-1068827891, 0, 1068827891>>,
       <<-1071494103, -1058262328, 1058262333, 1071494103>>,
       <<-1073741824, -1065353216, 0, 1065353216, 1073741824>>,
       <<-1074731965, -1068219107, -1055193390, 1055193396, 1068219107, 1074731965>>,
       <<-1075627121, -1070663148, -1062274538, 0, 1062274545, 1070663146, 1075627121>>,
       <<-1076450301, -1072817587, -1066476394, -1052869774, 1052869780, 1066476396, 1072817587, 1076450301>>,
       <<-1077216499, -1074250678, -1068827891, -1060439283, 0, 1060439283, 1068827891, 1074250678, 1077216499>>,
       <<-1077936128, -1075139926, -1070945620, -1065353213, -1051372198, 1051372206, 1065353219, 1070945622, 1075139926, 1077936128>>
    >>

\* A plausible slip: the sort key is the raw winrate.
final_stats_by_winrate(s) ==
    [winrate    |-> F32Winrate[s.games][s.wins + 1],
     deviations |-> F32Winrate[s.games][s.wins + 1]]

final_stats(s) ==
    [winrate    |-> F32Winrate[s.games][s.wins + 1],
     deviations |-> F32Deviations[s.games][s.wins + 1]]

-----------------------------------------------------------------------------
(* Stats: an IndexMap (entries in insertion order, keys unique) and a flag  *)

GameResult(species, won) == [species |-> species, won |-> won]

PokemonStats(games, wins) == [games |-> games, wins |-> wins]

Entry(species, s) == [species |-> species, games |-> s.games, wins |-> s.wins]

new == [pokemon |-> <<>>, is_sorted |-> FALSE]

\* IndexMap::get_index_of: the position of a key, 0 when absent.
IndexOf(pokemon, species) ==
    IF \E i \in 1..Len(pokemon) : pokemon[i].species = species
    THEN CHOOSE i \in 1..Len(pokemon) : pokemon[i].species = species
    ELSE 0

\* A plausible slip: a first win is not counted on insertion.
AddOneNoFirstWin(pokemon, result) ==
    LET wins == IF result.won THEN 1 ELSE 0
        i == IndexOf(pokemon, result.species)
    IN IF i # 0
       THEN [pokemon EXCEPT ![i].wins = @ + wins, ![i].games = @ + 1]
       ELSE Append(pokemon, Entry(result.species, PokemonStats(1, 0)))

\* A plausible slip: the win is counted whatever result.won says.
AddOneAlwaysWin(pokemon, result) ==
    LET i == IndexOf(pokemon, result.species)
    IN IF i # 0
       THEN [pokemon EXCEPT ![i].wins = @ + 1, ![i].games = @ + 1]
       ELSE Append(pokemon, Entry(result.species, PokemonStats(1, 1)))

\* A plausible slip: the game is counted only when the species is inserted.
AddOneNoGames(pokemon, result) ==
    LET wins == IF result.won THEN 1 ELSE 0
        i == IndexOf(pokemon, result.species)
    IN IF i # 0
       THEN [pokemon EXCEPT ![i].wins = @ + wins]
       ELSE Append(pokemon, Entry(result.species, PokemonStats(1, wins)))

\* One iteration of the loop of add_game_results.
AddOne(pokemon, result) ==
    LET wins == IF result.won THEN 1 ELSE 0
        i == IndexOf(pokemon, result.species)
    IN IF i # 0
       THEN [pokemon EXCEPT ![i].wins = @ + wins, ![i].games = @ + 1]
       ELSE Append(pokemon, Entry(result.species, PokemonStats(1, wins)))

RECURSIVE AddAll(_, _)
AddAll(pokemon, results) ==
    IF results = <<>> THEN pokemon
    ELSE AddAll(AddOne(pokemon, Head(results)), Tail(results))

add_game_results(self, results) ==
    IF results = <<>> THEN self
    ELSE [pokemon |-> AddAll(self.pokemon, results), is_sorted |-> FALSE]

\* The comparator of Stats::sort: b.deviations.partial_cmp(a.deviations).
\* games >= 1 in every entry, so no deviation is NaN and unwrap succeeds.
SortsBefore(a, b) == final_stats(b).deviations < final_stats(a).deviations

\* A plausible slip: an unstable sort, which puts equal keys in any order
\* (here: the later entry first).
InsertSortedUnstable(sorted, x) ==
    LET n == Cardinality({i \in 1..Len(sorted) : SortsBefore(sorted[i], x)})
    IN SubSeq(sorted, 1, n) \o <<x>> \o SubSeq(sorted, n + 1, Len(sorted))

\* IndexMap::sort_by is a stable sort: an entry goes after every entry
\* already placed that does not compare Greater to it.
InsertSorted(sorted, x) ==
    LET n == Cardinality({i \in 1..Len(sorted) : ~SortsBefore(x, sorted[i])})
    IN SubSeq(sorted, 1, n) \o <<x>> \o SubSeq(sorted, n + 1, Len(sorted))

RECURSIVE SortBy(_, _)
SortBy(sorted, rest) ==
    IF rest = <<>> THEN sorted
    ELSE SortBy(InsertSorted(sorted, Head(rest)), Tail(rest))

\* A plausible slip: the map is rebuilt with the deviations as its key, so
\* that of the entries with equal deviations only the first is kept.
sort_keyed_by_deviations(self) ==
    LET sorted == SortBy(<<>>, self.pokemon)
        IsFirst(i) ==
            \A j \in 1..(i - 1) :
                final_stats(sorted[j]).deviations # final_stats(sorted[i]).deviations
        Kept == {i \in 1..Len(sorted) : IsFirst(i)}
    IN [self EXCEPT !.pokemon =
            [k \in 1..Cardinality(Kept) |->
                sorted[CHOOSE i \in Kept :
                           Cardinality({j \in Kept : j <= i}) = k]]]

\* Stats::sort: is_sorted is never set, the map is sorted on every call.
sort(self) ==
    IF ~self.is_sorted
    THEN [self EXCEPT !.pokemon = SortBy(<<>>, self.pokemon)]
    ELSE self

\* The text of to_csv: one row per entry, the rows joined by "\n" and the
\* fields of a row by ",".  Integers print as themselves and an f32 prints
\* as the shortest text that reads back as the same f32.
CsvRow(e) ==
    LET fstats == final_stats(e)
    IN <<e.species, e.games, e.wins, fstats.winrate, fstats.deviations>>

to_csv(sorted) == [i \in 1..Len(sorted.pokemon) |-> CsvRow(sorted.pokemon[i])]

\* The rows of the table of to_human_readable, below its header row.
HumanRow(cur_rank, e) ==
    LET fstats == final_stats(e)
    IN <<cur_rank, SubSeq(e.species, 2, Len(e.species) - 1),
         fstats.deviations, <<fstats.winrate, "%">>, e.games, e.wins>>

\* The loop of to_human_readable: a row for the next entry, cur_rank += 1.
RECURSIVE AddRows(_, _, _)
AddRows(table, cur_rank, pokemon) ==
    IF pokemon = <<>> THEN table
    ELSE AddRows(Append(table, HumanRow(cur_rank, Head(pokemon))), cur_rank + 1,
                 Tail(pokemon))

\* A plausible slip: entries with equal deviations share a rank.
to_human_readable_tied(sorted) ==
    [i \in 1..Len(sorted.pokemon) |->
        HumanRow(Cardinality({final_stats(sorted.pokemon[j]).deviations : j \in 1..i}),
                 sorted.pokemon[i])]

to_human_readable(sorted) == AddRows(<<>>, 1, sorted.pokemon)

\* A plausible slip: the Magearna rule returns the text that the rule
\* below it compares with.
normalize_species_chained(species) ==
    IF StartsWith(species, <<Q, "Pikachu", "-">>) THEN <<Q, "Pikachu", Q>>
    ELSE IF StartsWith(species, <<Q, "Unown", "-">>) THEN <<Q, "Unown", Q>>
    ELSE IF species = <<Q, "Gastrodon", "-", "East">> THEN <<"Gastrodon", Q>>
    ELSE IF species = <<Q, "Magearna", "-", "Original">>
    THEN <<Q, "Genesect", "-", "Douse">>
    ELSE IF species = <<Q, "Genesect", "-", "Douse">> THEN <<Q, "Genesect", Q>>
    ELSE IF \E name \in {"Basculin", "Sawsbuck", "Vivillon", "Florges", "Furfrou",
                         "Minior", "Gourgeist", "Toxtricity"} :
                StartsWith(species, <<Q, name, "-">>)
    THEN <<Q, species[2], Q>>
    ELSE species

\* Stats::normalize_species, rule by rule.
normalize_species(species) ==
    IF StartsWith(species, <<Q, "Pikachu", "-">>) THEN <<Q, "Pikachu", Q>>
    ELSE IF StartsWith(species, <<Q, "Unown", "-">>) THEN <<Q, "Unown", Q>>
    ELSE IF species = <<Q, "Gastrodon", "-", "East">> THEN <<"Gastrodon", Q>>
    ELSE IF species = <<Q, "Magearna", "-", "Original">> THEN <<Q, "Magearna", Q>>
    ELSE IF species = <<Q, "Genesect", "-", "Douse">> THEN <<Q, "Genesect", Q>>
    ELSE IF StartsWith(species, <<Q, "Basculin", "-">>) THEN <<Q, "Basculin", Q>>
    ELSE IF StartsWith(species, <<Q, "Sawsbuck", "-">>) THEN <<Q, "Sawsbuck", Q>>
    ELSE IF StartsWith(species, <<Q, "Vivillon", "-">>) THEN <<Q, "Vivillon", Q>>
    ELSE IF StartsWith(species, <<Q, "Florges", "-">>) THEN <<Q, "Florges", Q>>
    ELSE IF StartsWith(species, <<Q, "Furfrou", "-">>) THEN <<Q, "Furfrou", Q>>
    ELSE IF StartsWith(species, <<Q, "Minior", "-">>) THEN <<Q, "Minior", Q>>
    ELSE IF StartsWith(species, <<Q, "Gourgeist", "-">>) THEN <<Q, "Gourgeist", Q>>
    ELSE IF StartsWith(species, <<Q, "Toxtricity", "-">>) THEN <<Q, "Toxtricity", Q>>
    ELSE species

-----------------------------------------------------------------------------
(* Stats::process_json                                                      *)
(*                                                                          *)
(* An Option is a sequence of at most one element, so that == on Options is *)
(* equality: None == None holds.  A rating's text is a sequence of tokens:  *)
(* an optional "-", a digit, an optional ".5"; or NaN; or anything else.    *)

None == <<>>

Some(x) == <<x>>

Digits == <<"0", "1", "2", "3", "4", "5", "6", "7", "8", "9">>

IsDigit(token) == \E d \in 1..Len(Digits) : Digits[d] = token

DigitValue(token) == (CHOOSE d \in 1..Len(Digits) : Digits[d] = token) - 1

\* str::parse::<f64>: the value in halves, "NaN" parses to NaN, and text
\* that is not a float literal (a quoted number, say) is an Err.
ParseF64(text) ==
    IF Len(text) = 1 /\ IsDigit(text[1])
        THEN [tag |-> "Ok", nan |-> FALSE, halves |-> 2 * DigitValue(text[1])]
    ELSE IF Len(text) = 3 /\ IsDigit(text[1]) /\ text[2] = "." /\ text[3] = "5"
        THEN [tag |-> "Ok", nan |-> FALSE, halves |-> 2 * DigitValue(text[1]) + 1]
    ELSE IF Len(text) = 2 /\ text[1] = "-" /\ IsDigit(text[2])
        THEN [tag |-> "Ok", nan |-> FALSE, halves |-> 0 - 2 * DigitValue(text[2])]
    ELSE IF Len(text) = 4 /\ text[1] = "-" /\ IsDigit(text[2]) /\ text[3] = "."
            /\ text[4] = "5"
        THEN [tag |-> "Ok", nan |-> FALSE,
              halves |-> 0 - (2 * DigitValue(text[2]) + 1)]
    ELSE IF text = <<"NaN">>
        THEN [tag |-> "Ok", nan |-> TRUE, halves |-> 0]
    ELSE [tag |-> "Err", nan |-> FALSE, halves |-> 0]

\* n as u64: truncates toward zero, NaN and every negative value become 0.
AsU64(n) ==
    IF n.nan \/ n.halves < 0 THEN 0 ELSE n.halves \div 2

\* One iteration of the ELO check: TRUE when the loop goes on.
EloPasses(min, elo_bytes) ==
    IF elo_bytes # None
    THEN LET n == ParseF64(elo_bytes[1])
         IN IF n.tag = "Ok" THEN ~(AsU64(n) < min) ELSE FALSE
    ELSE FALSE

\* The text of a team: "[{" e1 "},{" e2 ... "}]", an entry being the text
\* of one pokemon object between its braces.
TeamText(entries) ==
    <<"[{">> \o [i \in 1..(2 * Len(entries) - 1) |->
                    IF i % 2 = 1 THEN entries[(i + 1) \div 2] ELSE "},{"]
             \o <<"}]">>

\* str::split("},{") on the tokens between prefix and suffix.
SplitEntries(body) == [i \in 1..((Len(body) + 1) \div 2) |-> body[2 * i - 1]]

\* An entry: the text of an object with a species field, of an object
\* without one, or text that is no JSON object.
ObjectWith(species) == [json |-> "object", species |-> Some(species)]

ObjectWithout == [json |-> "object", species |-> None]

Garbage == [json |-> "garbage", species |-> None]

\* Pikkr::parse of "{" entry "}" for the query $.species, then get(0).
ParseSpecies(pkmn_json) ==
    IF pkmn_json.json = "object"
    THEN [tag |-> "Ok", species |-> pkmn_json.species]
    ELSE [tag |-> "Err", species |-> None]

RECURSIVE EntryResults(_, _, _)
EntryResults(entries, won, results) ==
    IF entries = <<>> THEN [tag |-> "Ok", results |-> results]
    ELSE LET parsed == ParseSpecies(Head(entries))
         IN IF parsed.tag = "Err" THEN [tag |-> "Err", results |-> <<>>]
            ELSE IF parsed.species = None
                 THEN EntryResults(Tail(entries), won, results)
            ELSE EntryResults(Tail(entries), won,
                     Append(results,
                            GameResult(normalize_species(parsed.species[1]), won)))

\* A plausible slip: the winner is compared with p1 for both teams.
TeamResultsWinnerIsP1(json_, team_idx, results) ==
    LET won == json_[6 + 1] = json_[2 + 1]
        team == json_[team_idx + 1]
    IN IF team = None THEN [tag |-> "Ok", results |-> results]
       ELSE IF ~(Len(team[1]) >= 2 /\ Head(team[1]) = "[{"
                   /\ team[1][Len(team[1])] = "}]")
            THEN [tag |-> "panic", results |-> <<>>]
       ELSE EntryResults(SplitEntries(SubSeq(team[1], 2, Len(team[1]) - 1)),
                         won, results)

\* A plausible slip: an absent team is an error, like an entry that does
\* not parse.
TeamResultsAbsentFails(json_, team_idx, results) ==
    LET won == json_[6 + 1] = json_[team_idx + 1 + 1]
        team == json_[team_idx + 1]
    IN IF team = None THEN [tag |-> "Err", results |-> <<>>]
       ELSE IF ~(Len(team[1]) >= 2 /\ Head(team[1]) = "[{"
                   /\ team[1][Len(team[1])] = "}]")
            THEN [tag |-> "panic", results |-> <<>>]
       ELSE EntryResults(SplitEntries(SubSeq(team[1], 2, Len(team[1]) - 1)),
                         won, results)

\* One iteration of the loop over team_idx, starting from `results`.
TeamResults(json_, team_idx, results) ==
    LET won == json_[6 + 1] = json_[team_idx + 1 + 1]
        team == json_[team_idx + 1]
    IN IF team = None THEN [tag |-> "Ok", results |-> results]
       ELSE IF ~(Len(team[1]) >= 2 /\ Head(team[1]) = "[{"
                   /\ team[1][Len(team[1])] = "}]")
            THEN [tag |-> "panic", results |-> <<>>]
       ELSE EntryResults(SplitEntries(SubSeq(team[1], 2, Len(team[1]) - 1)),
                         won, results)

\* Result<Vec<GameResult>, StatsError>, or the panic of an unwrap.
process_json(min, json_) ==
    IF ~EloPasses(min, json_[0 + 1]) THEN [tag |-> "Ok", results |-> <<>>]
    ELSE IF ~EloPasses(min, json_[3 + 1]) THEN [tag |-> "Ok", results |-> <<>>]
    ELSE LET first == TeamResults(json_, 1, <<>>)
         IN IF first.tag # "Ok" THEN first
            ELSE TeamResults(json_, 4, first.results)

-----------------------------------------------------------------------------
(* The store model: any use of a Stats object through its public methods    *)

GameResults == {GameResult(sp, won) : sp \in StoreSpecies, won \in BOOLEAN}

RECURSIVE SeqsUpTo(_, _)
SeqsUpTo(S, n) ==
    IF n = 0 THEN {<<>>}
    ELSE LET shorter == SeqsUpTo(S, n - 1)
         IN shorter \cup {Append(s, x) : s \in {t \in shorter : Len(t) = n - 1}, x \in S}

Batches == SeqsUpTo(GameResults, MaxBatch)

RECURSIVE NewSpecies(_, _)
NewSpecies(seen, results) ==
    IF results = <<>> THEN seen
    ELSE LET sp == Head(results).species
         IN NewSpecies(IF \E i \in 1..Len(seen) : seen[i] = sp
                       THEN seen ELSE Append(seen, sp),
                       Tail(results))

\* The variables of the other models, at rest.
ExtractIdle == min_elo = 0 /\ json = <<>> /\ extracted = <<>>

MergeIdle == corpus = <<>> /\ remaining = <<>> /\ run = 0 /\ firstFinal = <<>>

StoreFresh ==
    /\ stats = new
    /\ last = [op |-> "new", arg |-> <<>>, out |-> <<>>]
    /\ firstSeen = <<>>
    /\ merged = <<>>
    /\ renderPhase = "merging"

PoolIdle ==
    /\ opts = <<>> /\ entryKinds = <<>> /\ files = <<>> /\ taskpc = <<>>
    /\ pending = <<>> /\ stats_mutex = <<>> /\ mainpc = "" /\ cursor = 0
    /\ written = <<>> /\ mergeCount = <<>>

NormIdle == raw = <<>> /\ normal = <<>>

StoreInit == StoreFresh /\ ExtractIdle /\ MergeIdle /\ PoolIdle /\ NormIdle

\* A call of add_game_results and what the history records of it.
Merge(results) ==
    /\ stats' = add_game_results(stats, results)
    /\ last' = [op |-> "add_game_results", arg |-> results, out |-> <<>>]
    /\ firstSeen' = NewSpecies(firstSeen, results)
    /\ merged' = merged \o results
    /\ renderPhase' = IF results # <<>> /\ renderPhase # "merging"
                      THEN "remerged" ELSE renderPhase

\* A call of to_csv and what the history records of it.
RenderCsv ==
    /\ stats' = sort(stats)
    /\ last' = [op |-> "to_csv", arg |-> <<>>, out |-> to_csv(stats')]
    /\ renderPhase' = IF renderPhase = "merging" THEN "rendered" ELSE renderPhase
    /\ UNCHANGED <<firstSeen, merged>>

\* A call of to_human_readable and what the history records of it.
RenderHuman ==
    /\ stats' = sort(stats)
    /\ last' = [op |-> "to_human_readable", arg |-> <<>>,
                out |-> to_human_readable(stats')]
    /\ renderPhase' = IF renderPhase = "merging" THEN "rendered" ELSE renderPhase
    /\ UNCHANGED <<firstSeen, merged>>

AddGameResults(results) ==
    /\ Len(merged) + Len(results) <= MaxResults
    /\ Merge(results)
    /\ UNCHANGED <<extractVars, mergeVars, poolVars, normVars>>

Sort ==
    /\ stats' = sort(stats)
    /\ last' = [op |-> "sort", arg |-> <<>>, out |-> <<>>]
    /\ renderPhase' = IF renderPhase = "merging" THEN "rendered" ELSE renderPhase
    /\ UNCHANGED <<firstSeen, merged, extractVars, mergeVars, poolVars, normVars>>

ToCsv == RenderCsv /\ UNCHANGED <<extractVars, mergeVars, poolVars, normVars>>

ToHumanReadable == RenderHuman /\ UNCHANGED <<extractVars, mergeVars, poolVars, normVars>>

StoreNext ==
    \/ \E results \in Batches : AddGameResults(results)
    \/ Sort
    \/ ToCsv
    \/ ToHumanReadable

StoreSpec == StoreInit /\ [][StoreNext]_vars

-----------------------------------------------------------------------------
(* Properties of the store model                                            *)

Renders == {"to_csv", "to_human_readable"}

Keys(pokemon) == {pokemon[i].species : i \in 1..Len(pokemon)}

KeySeq(pokemon) == [i \in 1..Len(pokemon) |-> pokemon[i].species]

GamesOf(pokemon, sp) ==
    IF sp \in Keys(pokemon) THEN pokemon[IndexOf(pokemon, sp)].games ELSE 0

WinsOf(pokemon, sp) ==
    IF sp \in Keys(pokemon) THEN pokemon[IndexOf(pokemon, sp)].wins ELSE 0

Occurrences(results, sp) ==
    Cardinality({i \in 1..Len(results) : results[i].species = sp})

WonOccurrences(results, sp) ==
    Cardinality({i \in 1..Len(results) : results[i].species = sp /\ results[i].won})

\* What add_game_results(results) is to do to a store.
MergeEffect(before, after, results) ==
    /\ results = <<>> => after = before
    /\ Keys(after.pokemon) =
           Keys(before.pokemon) \cup {results[i].species : i \in 1..Len(results)}
    /\ \A sp \in Keys(after.pokemon) :
           /\ GamesOf(after.pokemon, sp) =
                  GamesOf(before.pokemon, sp) + Occurrences(results, sp)
           /\ WinsOf(after.pokemon, sp) =
                  WinsOf(before.pokemon, sp) + WonOccurrences(results, sp)
    /\ Len(after.pokemon) = Cardinality(Keys(after.pokemon))
    /\ KeySeq(after.pokemon) = NewSpecies(KeySeq(before.pokemon), results)

\* C2: add_game_results inserts an absent species with games = 1 and
\* wins = 1 if won else 0, adds 1 to the games of a present species and 1
\* to its wins if won, once per result and in the order of the results;
\* no other entry changes, and an empty result sequence changes nothing.
C2_MergeEffect ==
    [][last'.op = "add_game_results" => MergeEffect(stats, stats', last'.arg)]_vars

\* A merge of two results, one of a species already counted twice and one
\* of a species it inserts.
C2_Witness ==
    /\ last.op = "add_game_results"
    /\ Len(last.arg) = 2
    /\ last.arg[1].won /\ ~last.arg[2].won
    /\ GamesOf(stats.pokemon, last.arg[1].species) = 3
    /\ GamesOf(stats.pokemon, last.arg[2].species) = 1

\* C3: every species entry of the store has wins <= games.
C3_WinsAtMostGames ==
    \A i \in 1..Len(stats.pokemon) : stats.pokemon[i].wins <= stats.pokemon[i].games

\* A store with a species that won all of its three games and a species
\* that lost one.
C3_Witness ==
    /\ \E i \in 1..Len(stats.pokemon) :
           stats.pokemon[i].games = 3 /\ stats.pokemon[i].wins = 3
    /\ \E i \in 1..Len(stats.pokemon) :
           stats.pokemon[i].wins < stats.pokemon[i].games

\* The ranking a render returned: species, games, wins and the deviations
\* printed, row by row.
Ranked ==
    IF last.op = "to_csv"
    THEN [i \in 1..Len(last.out) |->
            [species |-> last.out[i][1], games |-> last.out[i][2],
             wins |-> last.out[i][3], deviations |-> last.out[i][5]]]
    ELSE [i \in 1..Len(last.out) |->
            [species |-> <<Q>> \o last.out[i][2] \o <<Q>>, games |-> last.out[i][5],
             wins |-> last.out[i][6], deviations |-> last.out[i][3]]]

FirstSeenAt(sp) == CHOOSE k \in 1..Len(firstSeen) : firstSeen[k] = sp

\* C9: after any sequence of merges, two species with equal deviations
\* are ranked by to_csv and to_human_readable in the order of their first
\* insertion into the store.
C9_StableRanking ==
    (last.op \in Renders /\ renderPhase = "rendered") =>
        \A i, j \in 1..Len(Ranked) :
            (i < j /\ Ranked[i].deviations = Ranked[j].deviations)
                => FirstSeenAt(Ranked[i].species) < FirstSeenAt(Ranked[j].species)

\* A ranking of three species after merges only: the first and the last
\* inserted tie, and the sort has moved the second inserted past them.
C9_Witness ==
    /\ last.op \in Renders /\ renderPhase = "rendered"
    /\ Len(Ranked) = 3
    /\ Ranked[2].deviations = Ranked[3].deviations
    /\ Ranked[1].deviations # Ranked[2].deviations
    /\ Ranked[1].species = firstSeen[2]
    /\ Ranked[2].species = firstSeen[1]

\* n * |n|: the square of n with the sign of n.
SignedSquare(n) == IF n < 0 THEN 0 - n * n ELSE n * n

\* (winrate - 50) * sqrt(games) / 50 with winrate = 100 * wins / games is
\* (2 * wins - games) / sqrt(games); a's score >= b's score, in exact
\* arithmetic.
ScoreAtLeast(a, b) ==
    SignedSquare(2 * a.wins - a.games) * b.games
        >= SignedSquare(2 * b.wins - b.games) * a.games

\* C10: in the ranked output every entry's deviation score
\* (winrate - 50) * sqrt(games) / 50 is >= the score of the entry after it.
C10_SortedByDeviations ==
    last.op \in Renders =>
        \A i \in 1..Len(Ranked) : \A j \in 1..Len(Ranked) :
            j = i + 1 => ScoreAtLeast(Ranked[i], Ranked[j])

\* A species with 1 win in 1 game, inserted first, is ranked below a
\* species with 3 wins in 3 games: the winrates are both 100.
C10_Witness ==
    /\ last.op \in Renders
    /\ \E i, j \in 1..Len(Ranked) :
           /\ i < j
           /\ Ranked[i].games = 3 /\ Ranked[i].wins = 3
           /\ Ranked[j].games = 1 /\ Ranked[j].wins = 1
           /\ FirstSeenAt(Ranked[j].species) < FirstSeenAt(Ranked[i].species)

-----------------------------------------------------------------------------
(* The extraction model: process_json applied to one record                 *)

RatingTexts ==
    {<<Digits[n + 1]>> : n \in 0..MaxElo}
        \cup {<<Digits[MaxElo], ".", "5">>, <<"-", "1">>, <<"NaN">>, <<Q, "1", Q>>}

Ratings == {None} \cup {Some(text) : text \in RatingTexts}

RawSpecies == {<<Q, "Pikachu", "-", "Alola", Q>>, <<Q, "Snorlax", Q>>}

Entries == {ObjectWith(sp) : sp \in RawSpecies} \cup {ObjectWithout, Garbage}

\* "[]", the text of a team without entries, has no "[{" to strip.
EmptyTeam == <<"[", "]">>

P1Teams ==
    {None, Some(EmptyTeam)}
        \cup {Some(TeamText(es)) : es \in SeqsUpTo(Entries, MaxTeam) \ {<<>>}}

P2Teams ==
    {None, Some(EmptyTeam)} \cup {Some(TeamText(<<e>>)) : e \in Entries}

P1s == {None, Some("annika")}

P2s == {Some("annika"), Some("rust haters")}

Winners == {None, Some("annika"), Some("rust haters")}

ExtractInit ==
    /\ min_elo \in 0..MaxElo
    /\ \E r1 \in Ratings, t1 \in P1Teams, p1 \in P1s,
          r2 \in Ratings, t2 \in P2Teams, p2 \in P2s, winner \in Winners :
           json = <<r1, t1, p1, r2, t2, p2, winner>>
    /\ extracted = None
    /\ StoreFresh
    /\ NormIdle
    /\ MergeIdle
    /\ PoolIdle

ProcessJson ==
    /\ extracted = None
    /\ extracted' = Some(process_json(min_elo, json))
    /\ UNCHANGED <<min_elo, json, storeVars, mergeVars, poolVars, normVars>>

ExtractNext == ProcessJson

ExtractSpec == ExtractInit /\ [][ExtractNext]_vars

\* A rating that is missing, is not a number, or is a number below min.
RatingFails(min, elo_bytes) ==
    \/ elo_bytes = None
    \/ /\ elo_bytes # None
       /\ LET n == ParseF64(elo_bytes[1])
          IN \/ n.tag = "Err"
             \/ n.tag = "Ok" /\ ~n.nan /\ n.halves < 2 * min

\* C1: process_json returns an empty result sequence whenever either
\* side's rating is missing, non-numeric or below min_elo, whatever the
\* other side's rating and the team data are.
C1_JointFilter ==
    (extracted # None /\ (RatingFails(min_elo, json[1]) \/ RatingFails(min_elo, json[4])))
        => extracted[1] = [tag |-> "Ok", results |-> <<>>]

-----------------------------------------------------------------------------
(* The merge model: one multiset of GameResults, merged into an empty store *)
(* batch by batch in any partition and order, twice                         *)

RECURSIVE SumOver(_, _)
SumOver(f, S) ==
    IF S = {} THEN 0
    ELSE LET x == CHOOSE y \in S : TRUE
         IN f[x] + SumOver(f, S \ {x})

CountIn(results, r) == Cardinality({i \in 1..Len(results) : results[i] = r})

\* The merge model's GameResults: two species, won or lost.
MergeResults ==
    {GameResult(sp, won) : sp \in {Quoted("Pikachu"), Quoted("Snorlax")},
                           won \in BOOLEAN}

Corpora ==
    {c \in [MergeResults -> 0..MaxResults] : SumOver(c, MergeResults) <= MaxResults}

MergeInit ==
    /\ corpus \in Corpora
    /\ remaining = corpus
    /\ run = 1
    /\ firstFinal = <<>>
    /\ StoreFresh
    /\ NormIdle
    /\ ExtractIdle
    /\ PoolIdle

\* add_game_results with a batch taken from what is left of the corpus.
MergeBatch(results) ==
    /\ \A r \in MergeResults : CountIn(results, r) <= remaining[r]
    /\ Merge(results)
    /\ remaining' = [r \in MergeResults |-> remaining[r] - CountIn(results, r)]
    /\ UNCHANGED <<corpus, run, firstFinal, extractVars, poolVars, normVars>>

\* Stats::new(): the second run starts from an empty store.
Restart ==
    /\ run = 1
    /\ \A r \in MergeResults : remaining[r] = 0
    /\ firstFinal' = stats.pokemon
    /\ run' = 2
    /\ remaining' = corpus
    /\ stats' = new
    /\ last' = [op |-> "new", arg |-> <<>>, out |-> <<>>]
    /\ firstSeen' = <<>>
    /\ merged' = <<>>
    /\ renderPhase' = "merging"
    /\ UNCHANGED <<corpus, extractVars, poolVars, normVars>>

MergeNext ==
    \/ \E results \in SeqsUpTo(MergeResults, MaxBatch) : MergeBatch(results)
    \/ Restart

MergeSpec == MergeInit /\ [][MergeNext]_vars

EntrySet(pokemon) == {pokemon[i] : i \in 1..Len(pokemon)}

\* C4: whatever the partition of a multiset of GameResults into batches
\* and the order of the batches, merging them into an empty store ends
\* with the same species, each with the same games and wins.
C4_MergeOrderIndependent ==
    (run = 2 /\ \A r \in MergeResults : remaining[r] = 0) =>
        /\ EntrySet(stats.pokemon) = EntrySet(firstFinal)
        /\ Len(stats.pokemon) = Len(firstFinal)

\* Two complete runs over a corpus with a species met three times, which
\* inserted the species in different orders.
C4_Witness ==
    /\ run = 2
    /\ \A r \in MergeResults : remaining[r] = 0
    /\ KeySeq(stats.pokemon) # KeySeq(firstFinal)
    /\ \E i \in 1..Len(stats.pokemon) :
           stats.pokemon[i].games = 3 /\ stats.pokemon[i].wins = 1

-----------------------------------------------------------------------------
(* The run: main, handle_directory and the tasks of the rayon pool          *)

Rating(n) == Some(<<Digits[n + 1]>>)

Team(speciesSeq) ==
    Some(TeamText([i \in 1..Len(speciesSeq) |-> ObjectWith(speciesSeq[i])]))

\* Battle logs: annika beats rust haters, both rated 1.
TwoOnOne ==
    <<Rating(1), Team(<<<<Q, "Pikachu", "-", "Alola", Q>>, <<Q, "Magearna", Q>>>>),
      Some("annika"),
      Rating(1), Team(<<<<Q, "Snorlax", Q>>>>), Some("rust haters"),
      Some("annika")>>

OneOnOne ==
    <<Rating(1), Team(<<<<Q, "Unown", "-", "B", Q>>>>), Some("annika"),
      Rating(1), Team(<<<<Q, "Snorlax", Q>>>>), Some("rust haters"),
      Some("annika")>>

\* The same battle with annika rated 0.
LowRated == [OneOnOne EXCEPT ![1] = Rating(0)]

\* A battle whose p2team has an entry that is no JSON object.
BadTeam == [OneOnOne EXCEPT ![5] = Some(TeamText(<<Garbage>>))]

\* A file of a directory: whether its name ends in ".json", whether
\* read_to_string succeeds, whether pikkr parses the text, and the fields
\* pikkr extracts.
FileKinds ==
    << [is_json |-> FALSE, readable |-> TRUE, parses |-> FALSE, json |-> <<>>],
       [is_json |-> TRUE, readable |-> FALSE, parses |-> FALSE, json |-> <<>>],
       [is_json |-> TRUE, readable |-> TRUE, parses |-> FALSE, json |-> <<>>],
       [is_json |-> TRUE, readable |-> TRUE, parses |-> TRUE, json |-> LowRated],
       [is_json |-> TRUE, readable |-> TRUE, parses |-> TRUE, json |-> BadTeam],
       [is_json |-> TRUE, readable |-> TRUE, parses |-> TRUE, json |-> OneOnOne],
       [is_json |-> TRUE, readable |-> TRUE, parses |-> TRUE, json |-> TwoOnOne] >>

\* An entry of format_dir: a directory to analyze, a directory whose name
\* contains the --exclude text, a plain file, or an entry that read_dir
\* fails on.
EntryKinds == {"dir", "excluded", "notdir", "unreadable"}

Tasks == 1..Len(files)

File(t) == FileKinds[files[t].kind]

\* Listings: format_dir has two entries, the first a directory to analyze;
\* files are listed directory by directory.  The tasks of one par_iter are
\* interchangeable, so a directory lists its files by kind.
Listings ==
    {fs \in SeqsUpTo([dir : 1..2, kind : 1..Len(FileKinds)], MaxFiles) :
        \A i, j \in 1..Len(fs) :
            i < j => \/ fs[i].dir < fs[j].dir
                     \/ fs[i].dir = fs[j].dir /\ fs[i].kind <= fs[j].kind}

\* A plausible slip: a file that fails is skipped like a file that is no
\* .json.
filter_map_lenient(min, file) ==
    IF ~file.is_json \/ ~file.readable \/ ~file.parses
    THEN [tag |-> "None", results |-> <<>>]
    ELSE LET processed == process_json(min, file.json)
         IN IF processed.tag = "Ok"
            THEN [tag |-> "Some", results |-> processed.results]
            ELSE [tag |-> "None", results |-> <<>>]

\* The closure of filter_map: None for a file that is no .json, the
\* results of process_json, or the panic of an expect or an unwrap.
filter_map(min, file) ==
    IF ~file.is_json THEN [tag |-> "None", results |-> <<>>]
    ELSE IF ~file.readable THEN [tag |-> "panic", results |-> <<>>]
    ELSE IF ~file.parses THEN [tag |-> "panic", results |-> <<>>]
    ELSE LET processed == process_json(min, file.json)
         IN IF processed.tag = "Ok"
            THEN [tag |-> "Some", results |-> processed.results]
            ELSE [tag |-> "panic", results |-> <<>>]

Init ==
    /\ opts \in [csv : BOOLEAN, human : BOOLEAN]
    /\ \E second \in EntryKinds : entryKinds = <<"dir", second>>
    /\ files \in Listings
    /\ \A t \in Tasks : entryKinds[files[t].dir] = "dir"
    /\ min_elo = 1
    /\ taskpc = [t \in Tasks |-> "idle"]
    /\ pending = [t \in Tasks |-> <<>>]
    /\ mergeCount = [t \in Tasks |-> 0]
    /\ stats_mutex = None
    /\ mainpc = "start"
    /\ cursor = 0
    /\ written = <<>>
    /\ json = <<>> /\ extracted = <<>>
    /\ StoreFresh
    /\ NormIdle
    /\ MergeIdle

runFrame ==
    <<min_elo, json, extracted, mergeVars, opts, entryKinds, files, normVars>>

\* main up to the call of handle_directory, and its first two lines.
Start ==
    /\ mainpc = "start"
    /\ IF ~opts.csv /\ ~opts.human
       THEN mainpc' = "exit_usage" /\ cursor' = cursor
       ELSE mainpc' = "walk" /\ cursor' = 1
    /\ UNCHANGED <<storeVars, runFrame, taskpc, pending, stats_mutex, written,
                   mergeCount>>

\* for entry in read_dir(format_dir): an entry that is no directory.
SkipEntry ==
    /\ mainpc = "walk" /\ cursor <= Len(entryKinds)
    /\ entryKinds[cursor] = "notdir"
    /\ cursor' = cursor + 1
    /\ UNCHANGED <<storeVars, runFrame, taskpc, pending, stats_mutex, mainpc,
                   written, mergeCount>>

\* should_ignore: println!("Ignoring ..."); continue.
Ignore ==
    /\ mainpc = "walk" /\ cursor <= Len(entryKinds)
    /\ entryKinds[cursor] = "excluded"
    /\ cursor' = cursor + 1
    /\ UNCHANGED <<storeVars, runFrame, taskpc, pending, stats_mutex, mainpc,
                   written, mergeCount>>

\* entry? or fs::read_dir(path)? is an Err: handle_directory returns it
\* and main returns it.
ReadDirFails ==
    /\ mainpc = "walk" /\ cursor <= Len(entryKinds)
    /\ entryKinds[cursor] = "unreadable"
    /\ mainpc' = "exit_err"
    /\ UNCHANGED <<storeVars, runFrame, taskpc, pending, stats_mutex, cursor,
                   written, mergeCount>>

\* println!("Analyzing ..."); the par_iter over the files starts.
Analyze ==
    /\ mainpc = "walk" /\ cursor <= Len(entryKinds)
    /\ entryKinds[cursor] = "dir"
    /\ mainpc' = "par"
    /\ UNCHANGED <<storeVars, runFrame, taskpc, pending, stats_mutex, cursor,
                   written, mergeCount>>

Runnable(t) == mainpc = "par" /\ files[t].dir = cursor

\* A task runs the closure of filter_map on its file.
Extract(t) ==
    /\ Runnable(t) /\ taskpc[t] = "idle"
    /\ LET item == filter_map(min_elo, File(t))
       IN /\ taskpc' = [taskpc EXCEPT ![t] =
                            CASE item.tag = "None" -> "skipped"
                              [] item.tag = "Some" -> "ready"
                              [] OTHER -> "panicked"]
          /\ pending' = [pending EXCEPT ![t] = item.results]
    /\ UNCHANGED <<storeVars, runFrame, stats_mutex, mainpc, cursor, written,
                   mergeCount>>

\* A plausible slip: add_game_results is called without the guard.
MutexFreeNoGuard == TRUE

\* Mutex::lock returns when no other task holds the guard.
MutexFree == stats_mutex = None

\* for_each: stats_mutex.lock().unwrap(), and add_game_results is entered.
Lock(t) ==
    /\ Runnable(t) /\ taskpc[t] = "ready"
    /\ MutexFree
    /\ stats_mutex' = Some(t)
    /\ taskpc' = [taskpc EXCEPT ![t] = "locked"]
    /\ mergeCount' = [mergeCount EXCEPT ![t] = @ + 1]
    /\ UNCHANGED <<storeVars, runFrame, pending, mainpc, cursor, written>>

\* One iteration of the loop of add_game_results, the guard held.
AddResult(t) ==
    /\ Runnable(t) /\ taskpc[t] = "locked"
    /\ pending[t] # <<>>
    /\ stats' = [pokemon |-> AddOne(stats.pokemon, Head(pending[t])),
                 is_sorted |-> FALSE]
    /\ pending' = [pending EXCEPT ![t] = Tail(@)]
    /\ firstSeen' = NewSpecies(firstSeen, <<Head(pending[t])>>)
    /\ merged' = Append(merged, Head(pending[t]))
    /\ UNCHANGED <<last, renderPhase, runFrame, taskpc, stats_mutex, mainpc,
                   cursor, written, mergeCount>>

\* A plausible slip: the task ends and the guard is never dropped.
UnlockKeepsGuard(t) ==
    /\ Runnable(t) /\ taskpc[t] = "locked"
    /\ pending[t] = <<>>
    /\ taskpc' = [taskpc EXCEPT ![t] = "done"]
    /\ UNCHANGED <<storeVars, runFrame, pending, stats_mutex, mainpc, cursor,
                   written, mergeCount>>

\* add_game_results returns and the guard is dropped.
Unlock(t) ==
    /\ Runnable(t) /\ taskpc[t] = "locked"
    /\ pending[t] = <<>>
    /\ stats_mutex' = None
    /\ taskpc' = [taskpc EXCEPT ![t] = "done"]
    /\ UNCHANGED <<storeVars, runFrame, pending, mainpc, cursor, written,
                   mergeCount>>

TasksOf(d) == {t \in Tasks : files[t].dir = d}

\* A plausible slip: the walk goes on while tasks are still running.
AllJoinedEarly(d) == \A t \in TasksOf(d) : taskpc[t] # "panicked"

\* for_each returns when every task of the directory has ended.
AllJoined(d) == \A t \in TasksOf(d) : taskpc[t] \in {"skipped", "done"}

Join ==
    /\ mainpc = "par"
    /\ AllJoined(cursor)
    /\ mainpc' = "walk"
    /\ cursor' = cursor + 1
    /\ UNCHANGED <<storeVars, runFrame, taskpc, pending, stats_mutex, written,
                   mergeCount>>

\* A task has panicked and rayon has run or dropped every other task of
\* the directory.
Panics(d) ==
    /\ \E t \in TasksOf(d) : taskpc[t] = "panicked"
    /\ \A t \in TasksOf(d) : taskpc[t] \notin {"ready", "locked"}

\* The panic of a task is resumed in for_each and unwinds main.
Unwind ==
    /\ mainpc = "par"
    /\ Panics(cursor)
    /\ mainpc' = "panicked"
    /\ UNCHANGED <<storeVars, runFrame, taskpc, pending, stats_mutex, cursor,
                   written, mergeCount>>

\* The loop over the entries ends: Ok(stats).
ReturnOk ==
    /\ mainpc = "walk" /\ cursor > Len(entryKinds)
    /\ mainpc' = "returned"
    /\ UNCHANGED <<storeVars, runFrame, taskpc, pending, stats_mutex, cursor,
                   written, mergeCount>>

\* if let Some(csv_path): fs::write(csv_path, stats.to_csv())?, Ok.
WriteCsv ==
    /\ mainpc = "returned"
    /\ IF opts.csv
       THEN /\ RenderCsv
            /\ written' = Append(written, [path |-> "csv", content |-> last'.out])
       ELSE UNCHANGED <<storeVars, written>>
    /\ mainpc' = "csv_done"
    /\ UNCHANGED <<runFrame, taskpc, pending, stats_mutex, cursor, mergeCount>>

\* fs::write(csv_path, stats.to_csv())?, Err.
WriteCsvFails ==
    /\ mainpc = "returned"
    /\ opts.csv
    /\ RenderCsv
    /\ mainpc' = "exit_err"
    /\ UNCHANGED <<runFrame, taskpc, pending, stats_mutex, cursor, written,
                   mergeCount>>

\* if let Some(human_path): fs::write(human_path, ...)?, Ok; Ok(()).
WriteHuman ==
    /\ mainpc = "csv_done"
    /\ IF opts.human
       THEN /\ RenderHuman
            /\ written' = Append(written, [path |-> "human", content |-> last'.out])
       ELSE UNCHANGED <<storeVars, written>>
    /\ mainpc' = "exit_ok"
    /\ UNCHANGED <<runFrame, taskpc, pending, stats_mutex, cursor, mergeCount>>

\* fs::write(human_path, stats.to_human_readable())?, Err.
WriteHumanFails ==
    /\ mainpc = "csv_done"
    /\ opts.human
    /\ RenderHuman
    /\ mainpc' = "exit_err"
    /\ UNCHANGED <<runFrame, taskpc, pending, stats_mutex, cursor, written,
                   mergeCount>>

Next ==
    \/ Start
    \/ SkipEntry
    \/ Ignore
    \/ ReadDirFails
    \/ Analyze
    \/ \E t \in Tasks : Extract(t)
    \/ \E t \in Tasks : Lock(t)
    \/ \E t \in Tasks : AddResult(t)
    \/ \E t \in Tasks : Unlock(t)
    \/ Join
    \/ Unwind
    \/ ReturnOk
    \/ WriteCsv
    \/ WriteCsvFails
    \/ WriteHuman
    \/ WriteHumanFails

Spec == Init /\ [][Next]_vars

-----------------------------------------------------------------------------
(* Properties of the run                                                    *)

\* The results of the record of a task, whatever the model of the worker
\* does with it: none for a file that is no .json.
RecordOf(t) ==
    IF File(t).is_json /\ File(t).readable /\ File(t).parses
    THEN process_json(min_elo, File(t).json)
    ELSE [tag |-> IF File(t).is_json THEN "unread" ELSE "None", results |-> <<>>]

RecordFails(t) == RecordOf(t).tag \notin {"Ok", "None"}

\* The store after the records are merged one by one in listing order.
RECURSIVE MergedInOrder(_, _)
MergedInOrder(self, t) ==
    IF t > Len(files) THEN self
    ELSE MergedInOrder(add_game_results(self, RecordOf(t).results), t + 1)

ReferenceContent(path) ==
    IF path = "csv"
    THEN to_csv(sort(MergedInOrder(new, 1)))
    ELSE to_human_readable(sort(MergedInOrder(new, 1)))

\* C5: whatever the order in which the tasks merge, the run ends with the
\* same ranked output: the entries and their rank order are those of the
\* run that merges the records in listing order.
C5_SameRankedOutput ==
    \A i \in 1..Len(written) :
        written[i].content = ReferenceContent(written[i].path)

\* C6: at most one task is inside add_game_results, and it holds the
\* guard of stats_mutex; no update of a counter is lost: the store counts
\* every result that a task has merged.
C6_OneMergeAtATime ==
    /\ Cardinality({t \in Tasks : taskpc[t] = "locked"}) <= 1
    /\ \A t \in Tasks : taskpc[t] = "locked" => stats_mutex = Some(t)
    /\ \A t \in Tasks :
           (pending[t] # <<>> /\ Len(pending[t]) < Len(RecordOf(t).results))
               => taskpc[t] = "locked"
    /\ \A i \in 1..Len(stats.pokemon) :
           /\ stats.pokemon[i].games = Occurrences(merged, stats.pokemon[i].species)
           /\ stats.pokemon[i].wins = WonOccurrences(merged, stats.pokemon[i].species)

\* A task is half way through the merge of its three results while
\* another task waits for the guard.
C6_Witness ==
    \E t, u \in Tasks :
        /\ taskpc[t] = "locked" /\ Len(pending[t]) = 1 /\ Len(merged) >= 2
        /\ taskpc[u] = "ready" /\ pending[u] # <<>>

ReturnedOk ==
    \/ mainpc \in {"returned", "csv_done", "exit_ok"}
    \/ last.op \in Renders
    \/ written # <<>>

TotalOccurrences(sp) ==
    SumOver([t \in Tasks |-> Occurrences(RecordOf(t).results, sp)], Tasks)

TotalWonOccurrences(sp) ==
    SumOver([t \in Tasks |-> WonOccurrences(RecordOf(t).results, sp)], Tasks)

RecordSpecies ==
    UNION {{RecordOf(t).results[i].species : i \in 1..Len(RecordOf(t).results)} :
              t \in Tasks}

\* C7: when handle_directory has returned Ok(stats), and whenever main
\* renders or writes, no record has failed and the results of every record
\* have been merged into the store exactly once.
C7_AllMergedBeforeReturn ==
    ReturnedOk =>
        /\ \A t \in Tasks :
               /\ ~RecordFails(t)
               /\ pending[t] = <<>>
               /\ RecordOf(t).tag = "Ok" => (taskpc[t] = "done" /\ mergeCount[t] = 1)
               /\ RecordOf(t).tag = "None" => (taskpc[t] = "skipped" /\ mergeCount[t] = 0)
        /\ Keys(stats.pokemon) = RecordSpecies
        /\ \A sp \in RecordSpecies :
               /\ GamesOf(stats.pokemon, sp) = TotalOccurrences(sp)
               /\ WinsOf(stats.pokemon, sp) = TotalWonOccurrences(sp)

\* Both reports are written after a run over two directories, with a
\* record merged from each and a file that is no .json skipped.
C7_Witness ==
    /\ mainpc = "exit_ok" /\ Len(written) = 2
    /\ \E t, u, v \in Tasks :
           /\ files[t].dir = 1 /\ taskpc[t] = "done" /\ RecordOf(t).results # <<>>
           /\ files[u].dir = 2 /\ taskpc[u] = "done" /\ RecordOf(u).results # <<>>
           /\ taskpc[v] = "skipped"

\* C8: once a record has failed in a task, or handle_directory has met
\* an entry it cannot read, no report is ever written.
C8_NoOutputOnFatalError ==
    (\/ \E t \in Tasks : taskpc[t] # "idle" /\ RecordFails(t)
     \/ \E d \in 1..Len(entryKinds) : cursor >= d /\ entryKinds[d] = "unreadable")
        => written = <<>>

\* The run has ended in the panic of a task whose team data is malformed,
\* after another task merged its record.
C8_Witness ==
    /\ mainpc = "panicked" /\ written = <<>>
    /\ \E t, u \in Tasks :
           /\ taskpc[t] = "panicked" /\ RecordOf(t).tag = "Err"
           /\ taskpc[u] = "done" /\ RecordOf(u).results # <<>>
    /\ stats.pokemon # <<>>

\* The run reads nothing but copies of one record that is accepted, whose
\* winner is p1 and whose teams have no species in common.
IdenticalRecords ==
    /\ files # <<>>
    /\ \A t \in Tasks :
           /\ File(t).is_json /\ File(t).readable /\ File(t).parses
           /\ File(t).json = File(1).json
    /\ LET record == File(1).json
           results == RecordOf(1).results
       IN /\ EloPasses(min_elo, record[1]) /\ EloPasses(min_elo, record[4])
          /\ record[7] = record[3] /\ record[7] # None /\ record[3] # record[6]
          /\ RecordOf(1).tag = "Ok"
          /\ \A i, j \in 1..Len(results) :
                 i # j => results[i].species # results[j].species
          /\ \A i, j \in 1..Len(results) :
                 (results[i].won /\ ~results[j].won) => i < j

\* The species, games and wins columns of a written report.
ReportCounts(report) ==
    [k \in 1..Len(report.content) |->
        IF report.path = "csv"
        THEN <<report.content[k][1], report.content[k][2], report.content[k][3]>>
        ELSE <<<<Q>> \o report.content[k][2] \o <<Q>>,
               report.content[k][5], report.content[k][6]>>]

\* C11: a run over N copies of one accepted record that p1 won, the teams
\* disjoint, reports under every interleaving of the tasks the species of
\* p1's team in team order with N games and N wins, and below them the
\* species of p2's team in team order with N games and no win.
C11_IdenticalRecords ==
    IdenticalRecords =>
        \A r \in 1..Len(written) :
            ReportCounts(written[r]) =
                [k \in 1..Len(RecordOf(1).results) |->
                    <<RecordOf(1).results[k].species, Len(files),
                      IF RecordOf(1).results[k].won THEN Len(files) ELSE 0>>]

\* Both reports are written after a run over as many copies of the two on
\* one battle as a listing holds, merged while another task held the guard.
C11_Witness ==
    /\ IdenticalRecords /\ Len(files) = MaxFiles /\ Len(written) = 2
    /\ Len(RecordOf(1).results) = 3
    /\ \E t \in Tasks : files[t].dir = 2

\* C17: the rows of to_human_readable are numbered from 1 in steps of 1,
\* the k-th row has rank k, also when entries have equal deviations.
C17_RanksWithoutGaps ==
    last.op = "to_human_readable" =>
        /\ Len(last.out) = Len(stats.pokemon)
        /\ \A k \in 1..Len(last.out) : last.out[k][1] = k

\* A table of three rows, the first two with equal deviations.
C17_Witness ==
    /\ last.op = "to_human_readable"
    /\ Len(last.out) = 3
    /\ last.out[1][3] = last.out[2][3]

\* What a render reports of the store that the merges alone have built.
RenderOfMerges(op) ==
    IF op = "to_csv"
    THEN to_csv(sort(add_game_results(new, merged)))
    ELSE to_human_readable(sort(add_game_results(new, merged)))

\* C12: sort, to_csv and to_human_readable leave the store as it is, its
\* entries, their counters and the order of insertion that breaks ties,
\* so that a render reports what it would report had no render come
\* between the merges.
C12_RenderLeavesStore ==
    [][last'.op \in Renders \cup {"sort"} =>
           /\ stats'.pokemon = stats.pokemon
           /\ last'.op \in Renders => last'.out = RenderOfMerges(last'.op)]_vars

-----------------------------------------------------------------------------
(* The normalizer: normalize_species on the species text of a team entry,   *)
(* and on its own result                                                    *)

\* The names that the rules of normalize_species collapse by prefix, and
\* the alternate forms they name in full.
PrefixRuleNames ==
    {"Pikachu", "Unown", "Basculin", "Sawsbuck", "Vivillon", "Florges",
     "Furfrou", "Minior", "Gourgeist", "Toxtricity"}

ExactRuleForms ==
    {<<"Gastrodon", "East">>, <<"Magearna", "Original">>, <<"Genesect", "Douse">>}

SpeciesNames ==
    PrefixRuleNames \cup {f[1] : f \in ExactRuleForms} \cup {"Snorlax", "Rotom"}

FormNames == {f[2] : f \in ExactRuleForms} \cup {"Alola", "Wash"}

\* Species texts: a name, with or without a form, with or without each of
\* the quotes.  pikkr yields the JSON string with both.
RawSpeciesTexts ==
    {open \o <<name>> \o form \o close :
        open \in {<<>>, <<Q>>}, name \in SpeciesNames,
        form \in {<<>>} \cup {<<"-", f>> : f \in FormNames},
        close \in {<<>>, <<Q>>}}

NormInit ==
    /\ raw \in RawSpeciesTexts
    /\ normal = <<>>
    /\ StoreFresh
    /\ ExtractIdle
    /\ MergeIdle
    /\ PoolIdle

Normalize ==
    /\ normal = <<>>
    /\ normal' = <<normalize_species(raw)>>
    /\ UNCHANGED <<raw, storeVars, extractVars, mergeVars, poolVars>>

Renormalize ==
    /\ Len(normal) = 1
    /\ normal' = Append(normal, normalize_species(normal[1]))
    /\ UNCHANGED <<raw, storeVars, extractVars, mergeVars, poolVars>>

NormNext == Normalize \/ Renormalize

NormSpec == NormInit /\ [][NormNext]_vars

\* C13: normalize_species is idempotent: what it returns, for a text that
\* a rule matches and for any other, it returns unchanged when applied
\* again.
C13_Idempotent ==
    Len(normal) = 2 => normal[2] = normal[1]

\* The form of a Pikachu has been collapsed, and the result normalized
\* again.
C13_Witness ==
    /\ Len(normal) = 2
    /\ raw = <<Q, "Pikachu", "-", "Alola", Q>>
    /\ normal[1] = <<Q, "Pikachu", Q>>

\* What the rule table is to return for a species text wrapped in quotes:
\* the quoted base name for a form that a prefix rule or an exact rule
\* covers, the text itself for any other.
Collapsed(text) ==
    IF /\ Len(text) = 5 /\ text[3] = "-"
       /\ \/ text[2] \in PrefixRuleNames
          \/ <<text[2], text[4]>> \in ExactRuleForms
    THEN <<Q, text[2], Q>>
    ELSE text

\* C16: normalize_species returns, for a species text in double quotes as
\* pikkr delivers it, the quoted base name when a prefix rule or one of the
\* exact rules (Gastrodon-East, Magearna-Original, Genesect-Douse) covers
\* it, and the text unchanged when no rule does.
C16_CollapsesToBase ==
    (normal # <<>> /\ Len(raw) >= 3 /\ raw[1] = Q /\ raw[Len(raw)] = Q)
        => normal[1] = Collapsed(raw)

-----------------------------------------------------------------------------
(* Properties of the extraction model                                       *)

\* A rating whose text is a number below zero.
IsNegative(elo_bytes) ==
    /\ elo_bytes # None
    /\ LET n == ParseF64(elo_bytes[1])
       IN n.tag = "Ok" /\ ~n.nan /\ n.halves < 0

\* C14: whatever min_elo is, 0 included, process_json returns an empty
\* result sequence for a record with a negative rating on either side.
C14_NegativeRatingRejected ==
    (extracted # None /\ (IsNegative(json[1]) \/ IsNegative(json[4])))
        => extracted[1] = [tag |-> "Ok", results |-> <<>>]

Accepted == EloPasses(min_elo, json[1]) /\ EloPasses(min_elo, json[4])

\* The team of a side (1 or 2), its player, and the entries of its text.
TeamOf(side) == json[3 * side - 1]

PlayerOf(side) == json[3 * side]

Wrapped(team) ==
    /\ team # None
    /\ Len(team[1]) >= 2 /\ team[1][1] = "[{" /\ team[1][Len(team[1])] = "}]"

EntriesOf(side) ==
    IF Wrapped(TeamOf(side))
    THEN [i \in 1..((Len(TeamOf(side)[1]) - 1) \div 2) |-> TeamOf(side)[1][2 * i]]
    ELSE <<>>

\* An entry that is an object with a species field.
HasSpecies(entry) == entry.json = "object" /\ entry.species # None

\* C15: whenever an entry of a present team of an accepted record cannot
\* be decoded into a species, process_json ends in an error and not in a
\* result sequence without that entry.
C15_MalformedTeamIsError ==
    (/\ extracted # None /\ Accepted
     /\ \E side \in 1..2 :
            \E i \in 1..Len(EntriesOf(side)) : ~HasSpecies(EntriesOf(side)[i]))
        => extracted[1].tag # "Ok"

\* The species entries of a side's team, in team order.
SpeciesEntriesOf(side) == SelectSeq(EntriesOf(side), HasSpecies)

\* Whether the winner field equals the player field of a side.  The fields
\* are Options and are compared as such: an absent field equals an absent
\* field only.
WinnerIs(side) == json[7] = PlayerOf(side)

\* One GameResult per species entry of a side.
ResultsOf(side) ==
    [k \in 1..Len(SpeciesEntriesOf(side)) |->
        GameResult(normalize_species(SpeciesEntriesOf(side)[k].species[1]),
                   WinnerIs(side))]

\* C18: the results that process_json returns for an accepted record are
\* one GameResult per species entry of p1's team and then of p2's team,
\* each won exactly when the winner equals the player of that side: all
\* are losses when the winner is neither player, and the results of at
\* most one side are wins when the players differ.
C18_OneResultPerSpeciesEntry ==
    (extracted # None /\ Accepted /\ extracted[1].tag = "Ok") =>
        LET results == extracted[1].results
            n1 == Len(SpeciesEntriesOf(1))
        IN /\ results = ResultsOf(1) \o ResultsOf(2)
           /\ (json[7] # PlayerOf(1) /\ json[7] # PlayerOf(2))
                  => \A k \in 1..Len(results) : ~results[k].won
           /\ PlayerOf(1) # PlayerOf(2)
                  => ~ /\ \E k \in 1..n1 : results[k].won
                       /\ \E k \in (n1 + 1)..Len(results) : results[k].won

\* p2 won a battle of two species against one: two losses, then a win.
C18_Witness ==
    /\ extracted # None /\ Accepted /\ extracted[1].tag = "Ok"
    /\ json[7] = Some("rust haters") /\ PlayerOf(2) = json[7]
    /\ PlayerOf(1) = Some("annika")
    /\ Len(extracted[1].results) = 3
    /\ ~extracted[1].results[1].won /\ extracted[1].results[3].won

\* The results of a side whose team is absent or is well-formed, and
\* whether a team is one or the other.
WellFormed(side) ==
    \/ TeamOf(side) = None
    \/ /\ Wrapped(TeamOf(side))
       /\ \A i \in 1..Len(EntriesOf(side)) : EntriesOf(side)[i].json = "object"

\* C19: for an accepted record with the team of one side absent,
\* process_json skips that side and returns Ok with the results of the
\* other side alone, and Ok with no result when both teams are absent.
C19_AbsentTeamSkipped ==
    \A side \in 1..2 :
        (/\ extracted # None /\ Accepted
         /\ TeamOf(side) = None /\ WellFormed(3 - side))
            => /\ extracted[1] = [tag |-> "Ok", results |-> ResultsOf(3 - side)]
               /\ TeamOf(3 - side) = None => extracted[1].results = <<>>

\* p1's team is absent and p2's Snorlax is the one result.
C19_Witness ==
    /\ extracted # None /\ Accepted
    /\ TeamOf(1) = None /\ TeamOf(2) # None
    /\ extracted[1].tag = "Ok" /\ Len(extracted[1].results) = 1

\* Every entry of `before` is an entry of `after`, with counters that are
\* no smaller.
Grows(before, after) ==
    \A sp \in Keys(before) :
        /\ sp \in Keys(after)
        /\ GamesOf(after, sp) >= GamesOf(before, sp)
        /\ WinsOf(after, sp) >= WinsOf(before, sp)

\* handle_directory has returned: every record has been processed.
AllProcessed == mainpc \in {"returned", "csv_done", "exit_ok", "exit_err"}

-----------------------------------------------------------------------------
(* The run under fair scheduling: while a task of the pool can take a step  *)
(* the pool eventually runs one, and main eventually takes the step it can  *)

\* The steps of the closure of filter_map and of for_each for one file.
TaskStep(t) ==
    /\ t \in Tasks
    /\ (Extract(t) \/ Lock(t) \/ AddResult(t) \/ Unlock(t))

\* The steps of the thread of main.
MainStep ==
    \/ Start \/ SkipEntry \/ Ignore \/ ReadDirFails \/ Analyze
    \/ Join \/ Unwind \/ ReturnOk
    \/ WriteCsv \/ WriteCsvFails \/ WriteHuman \/ WriteHumanFails

\* The runs over at most MaxFairFiles files.
FairInit == Init /\ Len(files) <= MaxFairFiles

FairSpec ==
    /\ FairInit
    /\ [][Next]_vars
    /\ WF_vars(\E t \in Tasks : TaskStep(t))
    /\ WF_vars(MainStep)

\* No file fails in its task and read_dir fails on no entry.
NoFatalError ==
    /\ \A t \in Tasks : ~RecordFails(t)
    /\ \A d \in 1..Len(entryKinds) : entryKinds[d] # "unreadable"

\* A task waits for the guard that no task can ever drop.
DeadlockedOnMutex ==
    \E t \in Tasks :
        /\ Runnable(t) /\ taskpc[t] = "ready"
        /\ stats_mutex # None
        /\ ~(Runnable(stats_mutex[1]) /\ taskpc[stats_mutex[1]] = "locked")

\* handle_directory has returned Ok(stats): every task has ended, a task
\* with results has taken the guard once, merged them all and dropped the
\* guard.
Completed ==
    /\ mainpc = "returned"
    /\ stats_mutex = None
    /\ \A t \in Tasks :
           /\ pending[t] = <<>>
           /\ RecordOf(t).tag = "Ok" => (taskpc[t] = "done" /\ mergeCount[t] = 1)
           /\ RecordOf(t).tag = "None" => (taskpc[t] = "skipped" /\ mergeCount[t] = 0)

\* C21: a run without a fatal error whose options pass the usage check
\* comes, under fair scheduling, to the return of handle_directory with
\* every task ended, each task with results having taken the guard of
\* stats_mutex, merged and dropped it; and no task is ever deadlocked on
\* stats_mutex.
C21_RunsToCompletion ==
    /\ (NoFatalError /\ (opts.csv \/ opts.human)) => <>Completed
    /\ [](NoFatalError => ~DeadlockedOnMutex)

\* handle_directory has returned after every task of a full listing has
\* merged its results.
C21_Witness ==
    /\ NoFatalError /\ mainpc = "returned"
    /\ Len(files) = MaxFairFiles
    /\ \A t \in Tasks : taskpc[t] = "done" /\ mergeCount[t] = 1

-----------------------------------------------------------------------------
(* Conservation of the counts in the run                                    *)

TotalGames(pokemon) ==
    SumOver([i \in 1..Len(pokemon) |-> pokemon[i].games], 1..Len(pokemon))

TotalWins(pokemon) ==
    SumOver([i \in 1..Len(pokemon) |-> pokemon[i].wins], 1..Len(pokemon))

\* C22: in every state of the run, whatever the interleaving of the tasks
\* and also in the middle of a merge, the games of the store add up to the
\* number of GameResults merged so far, the wins to the number of those
\* that are won, and every entry of the store has at least one game.
C22_CountsConserved ==
    /\ TotalGames(stats.pokemon) = Len(merged)
    /\ TotalWins(stats.pokemon) =
           Cardinality({i \in 1..Len(merged) : merged[i].won})
    /\ \A i \in 1..Len(stats.pokemon) : stats.pokemon[i].games >= 1

\* A task is in the middle of its merge after another task has merged a
\* record with the same species: five results are counted, two of them
\* for one entry.
C22_Witness ==
    /\ \E t, u \in Tasks :
           /\ taskpc[t] = "locked" /\ pending[t] # <<>>
           /\ taskpc[u] = "done" /\ RecordOf(u).results # <<>>
    /\ Len(merged) = 5
    /\ \E i \in 1..Len(stats.pokemon) : stats.pokemon[i].games = 2
    /\ \E i \in 1..Len(merged) : merged[i].won

====
